---- MODULE Spec2Model ----
(***************************************************************************)
(* A model of pdfannots: the geometry test (boxhit), the Annotation record *)
(* (capture / gettext / getstartpos), the reconciliation engine            *)
(* (RectExtractor), the position order (Pos.__lt__), the outline lookup    *)
(* (OrgPrinter.nearest_outline) and the page loop of process_file.         *)
(*                                                                         *)
(* Conventions.                                                            *)
(*  - A Python str is a sequence of one-character strings; a character     *)
(*    outside ASCII is written by its code point ("U+FB01").               *)
(*  - An optional value is a set: {} is None, {v} is the value v.          *)
(*  - Coordinates are integers; the code's float division and floor        *)
(*    division are modelled exactly (as rationals), without rounding.      *)
(*  - An Annotation object is named by its identity <<pageno, k>>: k is    *)
(*    its place in the raw records of its page.  heap maps an identity to  *)
(*    the object's fields.                                                 *)
(***************************************************************************)
EXTENDS Integers, Sequences, FiniteSets, TLC

VARIABLES
    COLUMNS_PER_PAGE,  \* the module global set by main() from --cols
    doc,               \* the input document: a sequence of pdfpages
    pageslist,         \* process_file: the Page objects made so far
    heap,              \* the Annotation objects, by identity
    allannots,         \* process_file: the list it returns
    annots,            \* RectExtractor.annots
    lasthit,           \* RectExtractor._lasthit
    curline,           \* RectExtractor._curline
    pc,                \* where process_file is
    last,              \* the primitive render() handled last (history)
    nrendered,         \* how many primitives were rendered (history)
    captured,          \* the arguments of capture() so far (history)
    got,               \* what the last gettext() returned (history)
    call,              \* a pure function's call: its name and arguments
    ret                \* <<>> while the call is pending, <<v>> once returned

vars == <<COLUMNS_PER_PAGE, doc, pageslist, heap, allannots, annots, lasthit,
          curline, pc, last, nrendered, captured, got, call, ret>>

docvars == <<doc, pageslist, allannots, annots, lasthit, curline, pc, last,
             nrendered>>

(***************************************************************************)
(* Bounds of the model.                                                    *)
(***************************************************************************)
MaxX == 4          \* the largest media box reaches x = MaxX
MaxY == 2          \* the largest media box reaches y = MaxY
MaxCols == 3       \* --cols ranges over 1 .. MaxCols
MaxCaptures == 3   \* capture() calls on one Annotation
MaxRendered == 3   \* primitives rendered in one document
MaxOutlines == 3   \* outline entries of one document
MaxRecords == 3    \* raw annotation records in one getannots call
MaxFiles == 3      \* input files of one run of main
MaxAnnots == 2     \* annotations handed to the printer

(***************************************************************************)
(* Python values.                                                          *)
(***************************************************************************)
None == {}
Some(v) == {v}
Val(o) == CHOOSE v \in o : TRUE

Min(a, b) == IF a <= b THEN a ELSE b
Max(a, b) == IF a >= b THEN a ELSE b

\* str.endswith for a one-character suffix
EndsWith(s, c) == Len(s) > 0 /\ s[Len(s)] = c

\* the characters str.strip() removes (those of them the model uses)
Whitespace == {" ", "\t", "\n", "\r", "\f"}

RECURSIVE LStrip(_)
LStrip(s) ==
    IF s # <<>> /\ Head(s) \in Whitespace THEN LStrip(Tail(s)) ELSE s

RECURSIVE RStrip(_)
RStrip(s) ==
    IF s # <<>> /\ s[Len(s)] \in Whitespace
    THEN RStrip(SubSeq(s, 1, Len(s) - 1))
    ELSE s

\* str.strip()
Strip(s) == RStrip(LStrip(s))

NL == <<"\n">>

(***************************************************************************)
(* SUBSTITUTIONS, ANNOT_SUBTYPES                                           *)
(***************************************************************************)
SUBSTITUTIONS ==
    [c \in {"U+FB00", "U+FB01", "U+FB02", "U+FB03", "U+FB04",
            "U+2018", "U+2019", "U+201C", "U+201D", "U+2026"} |->
        CASE c = "U+FB00" -> <<"f", "f">>
          [] c = "U+FB01" -> <<"f", "i">>
          [] c = "U+FB02" -> <<"f", "l">>
          [] c = "U+FB03" -> <<"f", "f", "i">>
          [] c = "U+FB04" -> <<"f", "f", "l">>
          [] c = "U+2018" -> <<"'">>
          [] c = "U+2019" -> <<"'">>
          [] c = "U+201C" -> <<"\"">>
          [] c = "U+201D" -> <<"\"">>
          [] c = "U+2026" -> <<".", ".", ".">>]

\* SUBSTITUTIONS.get(c, c)
SubstGet(c) == IF c \in DOMAIN SUBSTITUTIONS THEN SUBSTITUTIONS[c] ELSE <<c>>

\* ''.join([SUBSTITUTIONS.get(c, c) for c in s])
RECURSIVE Substitute(_)
Substitute(s) ==
    IF s = <<>> THEN <<>> ELSE SubstGet(Head(s)) \o Substitute(Tail(s))

ANNOT_SUBTYPES == {"Text", "Highlight", "Squiggly", "StrikeOut", "Underline"}

(***************************************************************************)
(* boxhit(item, box): does most of the item's area overlap the box?        *)
(* A box is <<x0, y0, x1, y1>>.  0.5 * item_area is exact, so the test is  *)
(* written 2 * overlap_area >= item_area.                                  *)
(***************************************************************************)
\* boxhit that asks for more than half of the item
boxhit_strict(item, box) ==
    LET x_overlap == Max(0, Min(item[3], box[3]) - Max(item[1], box[1]))
        y_overlap == Max(0, Min(item[4], box[4]) - Max(item[2], box[2]))
        overlap_area == x_overlap * y_overlap
        item_area == (item[3] - item[1]) * (item[4] - item[2])
    IN  IF item_area = 0 THEN FALSE ELSE 2 * overlap_area > item_area

\* boxhit that measures the overlap against the box, not the item
boxhit_of_box(item, box) ==
    LET x_overlap == Max(0, Min(item[3], box[3]) - Max(item[1], box[1]))
        y_overlap == Max(0, Min(item[4], box[4]) - Max(item[2], box[2]))
        overlap_area == x_overlap * y_overlap
        item_area == (item[3] - item[1]) * (item[4] - item[2])
        box_area == (box[3] - box[1]) * (box[4] - box[2])
    IN  IF item_area = 0 THEN FALSE ELSE 2 * overlap_area >= box_area

boxhit(item, box) ==
    LET x_overlap == Max(0, Min(item[3], box[3]) - Max(item[1], box[1]))
        y_overlap == Max(0, Min(item[4], box[4]) - Max(item[2], box[2]))
        overlap_area == x_overlap * y_overlap
        item_area == (item[3] - item[1]) * (item[4] - item[2])
    IN  IF item_area = 0 THEN FALSE ELSE 2 * overlap_area >= item_area

(***************************************************************************)
(* class Annotation                                                        *)
(***************************************************************************)
\* the boxes of Annotation.__init__: one box for each 8 numbers of coords
RECURSIVE BoxesOf(_)
BoxesOf(coords) ==
    IF coords = <<>> THEN <<>>
    ELSE LET xvals == {coords[1], coords[3], coords[5], coords[7]}
             yvals == {coords[2], coords[4], coords[6], coords[8]}
             lo(S) == CHOOSE v \in S : \A w \in S : v <= w
             hi(S) == CHOOSE v \in S : \A w \in S : v >= w
         IN  <<<<lo(xvals), lo(yvals), hi(xvals), hi(yvals)>>>>
                 \o BoxesOf(SubSeq(coords, 9, Len(coords)))

\* Annotation.__init__; coords, rect and contents are optional
NewAnnotation(page, tagname, coords, rect, contents) ==
    [page |-> page,
     tagname |-> tagname,
     contents |-> IF contents = Some(<<>>) THEN None ELSE contents,
     rect |-> rect,
     text |-> <<>>,
     boxes |-> IF coords = None THEN None ELSE Some(BoxesOf(Val(coords)))]

\* "if self.boxes": neither None nor the empty list
HasBoxes(a) == a.boxes # None /\ Val(a.boxes) # <<>>

\* capture() without the dehyphenation branch
capture_keeps_hyphen(a, text) ==
    IF text = NL
    THEN IF ~EndsWith(a.text, " ")
         THEN [a EXCEPT !.text = a.text \o <<" ">>]
         ELSE a
    ELSE [a EXCEPT !.text = a.text \o text]

\* capture() that appends a space at every line break
capture_always_space(a, text) ==
    IF text = NL
    THEN IF EndsWith(a.text, "-")
         THEN [a EXCEPT !.text = SubSeq(a.text, 1, Len(a.text) - 1)]
         ELSE [a EXCEPT !.text = a.text \o <<" ">>]
    ELSE [a EXCEPT !.text = a.text \o text]

\* capture() that puts a space where it takes the hyphen
capture_hyphen_to_space(a, text) ==
    IF text = NL
    THEN IF EndsWith(a.text, "-")
         THEN [a EXCEPT !.text = SubSeq(a.text, 1, Len(a.text) - 1) \o <<" ">>]
         ELSE IF ~EndsWith(a.text, " ")
              THEN [a EXCEPT !.text = a.text \o <<" ">>]
              ELSE a
    ELSE [a EXCEPT !.text = a.text \o text]

\* Annotation.capture(text): the annotation after the call
capture(a, text) ==
    IF text = NL
    THEN IF EndsWith(a.text, "-")
         THEN [a EXCEPT !.text = SubSeq(a.text, 1, Len(a.text) - 1)]
         ELSE IF ~EndsWith(a.text, " ")
              THEN [a EXCEPT !.text = a.text \o <<" ">>]
              ELSE a
    ELSE [a EXCEPT !.text = a.text \o text]

\* gettext() that forgets to strip the buffer
gettext_unstripped(a) ==
    IF HasBoxes(a)
    THEN IF a.text # <<>>
         THEN Some(Substitute(a.text))
         ELSE Some(<<"(", "X", "X", "X", ":", " ", "m", "i", "s", "s", "i",
                     "n", "g", " ", "t", "e", "x", "t", "!", ")">>)
    ELSE None

\* Annotation.gettext(): None or a str
gettext(a) ==
    IF HasBoxes(a)
    THEN IF a.text # <<>>
         THEN Some(Substitute(Strip(a.text)))
         ELSE Some(<<"(", "X", "X", "X", ":", " ", "m", "i", "s", "s", "i",
                     "n", "g", " ", "t", "e", "x", "t", "!", ")">>)
    ELSE None

\* getstartpos() that looks at the boxes before the rectangle
getstartpos_boxes_first(a) ==
    LET r == IF HasBoxes(a) THEN Some(Val(a.boxes)[1])
             ELSE IF a.rect # None /\ Val(a.rect) # <<>> THEN Some(Val(a.rect))
             ELSE None
    IN  IF r = None THEN None
        ELSE Some([page |-> a.page,
                   x |-> Min(Val(r)[1], Val(r)[3]),
                   y |-> Max(Val(r)[2], Val(r)[4])])

\* Annotation.getstartpos(): None or a Pos [page, x, y]
getstartpos(a) ==
    LET r == IF a.rect # None /\ Val(a.rect) # <<>> THEN Some(Val(a.rect))
             ELSE IF HasBoxes(a) THEN Some(Val(a.boxes)[1])
             ELSE None
    IN  IF r = None THEN None
        ELSE Some([page |-> a.page,
                   x |-> Min(Val(r)[1], Val(r)[3]),
                   y |-> Max(Val(r)[2], Val(r)[4])])

(***************************************************************************)
(* class Page and class Pos.  A Pos and an Annotation hold their Page by   *)
(* reference: here as the Page's two fields that never change, pageno and  *)
(* mediabox (the Page's annots list is kept in pageslist).  The media      *)
(* boxes of the model have a positive width and COLUMNS_PER_PAGE >= 1 (the *)
(* code divides by both).                                                  *)
(***************************************************************************)
Page(pageno, mb) == [pageno |-> pageno, mediabox |-> mb]

\* Page.__lt__ and Page.__eq__
PageLt(p, q) == p.pageno < q.pageno
PageEq(p, q) == p.pageno = q.pageno

\* normalise_to_mediabox() that leaves the coordinates as they are
normalise_nothing(p) == <<p.x, p.y>>

\* Pos.normalise_to_mediabox(): <<x, y>>
normalise_to_mediabox(p) ==
    LET mb == p.page.mediabox
        x == IF p.x < mb[1] THEN mb[1] ELSE IF p.x > mb[3] THEN mb[3] ELSE p.x
        y == IF p.y < mb[2] THEN mb[2] ELSE IF p.y > mb[4] THEN mb[4] ELSE p.y
    IN  <<x, y>>

\* (x - x0) // colwidth with colwidth = (x1 - x0) / COLUMNS_PER_PAGE
ColumnOf(p) ==
    LET mb == p.page.mediabox
    IN  ((normalise_to_mediabox(p)[1] - mb[1]) * COLUMNS_PER_PAGE)
            \div (mb[3] - mb[1])

\* Pos.__lt__ that compares the coordinates as given, without clamping
PosLt_unclamped(self, other) ==
    IF PageLt(self.page, other.page) THEN TRUE
    ELSE IF PageEq(self.page, other.page)
         THEN LET mb == self.page.mediabox
                  self_col == ((self.x - mb[1]) * COLUMNS_PER_PAGE)
                                  \div (mb[3] - mb[1])
                  other_col == ((other.x - mb[1]) * COLUMNS_PER_PAGE)
                                  \div (mb[3] - mb[1])
              IN  \/ self_col < other_col
                  \/ (self_col = other_col /\ self.y > other.y)
         ELSE FALSE

\* Pos.__lt__ with the y comparison made non-strict
PosLt_nonstrict(self, other) ==
    IF PageLt(self.page, other.page) THEN TRUE
    ELSE IF PageEq(self.page, other.page)
         THEN LET sy == normalise_to_mediabox(self)[2]
                  oy == normalise_to_mediabox(other)[2]
              IN  \/ ColumnOf(self) < ColumnOf(other)
                  \/ (ColumnOf(self) = ColumnOf(other) /\ sy >= oy)
         ELSE FALSE

\* Pos.__lt__ that orders a page top-down before it looks at the columns
PosLt_rowmajor(self, other) ==
    IF PageLt(self.page, other.page) THEN TRUE
    ELSE IF PageEq(self.page, other.page)
         THEN LET sy == normalise_to_mediabox(self)[2]
                  oy == normalise_to_mediabox(other)[2]
              IN  sy > oy \/ (sy = oy /\ ColumnOf(self) < ColumnOf(other))
         ELSE FALSE

\* Pos.__lt__(self, other)
PosLt(self, other) ==
    IF PageLt(self.page, other.page) THEN TRUE
    ELSE IF PageEq(self.page, other.page)
         THEN LET sy == normalise_to_mediabox(self)[2]
                  oy == normalise_to_mediabox(other)[2]
                  self_col == ColumnOf(self)
                  other_col == ColumnOf(other)
              IN  self_col < other_col \/ (self_col = other_col /\ sy > oy)
         ELSE FALSE

\* Annotation.__lt__(self, other); it raises when either has no start
\* position (None < Pos is a TypeError, Pos < None an AttributeError)
AnnotLtRaises(a, b) == getstartpos(a) = None \/ getstartpos(b) = None
AnnotLt(a, b) == PosLt(Val(getstartpos(a)), Val(getstartpos(b)))

(***************************************************************************)
(* list.sort() on a list of Annotation identities: a stable sort, here by  *)
(* insertion (what Python does to a short list).  Each element of a list   *)
(* of two or more is compared at least once, so the sort raises when one   *)
(* of them has no start position.                                          *)
(***************************************************************************)
SortRaises(h, ids) ==
    Len(ids) >= 2 /\ \E i \in 1..Len(ids) : getstartpos(h[ids[i]]) = None

\* e goes before the first element it is less than
RECURSIVE InsertSorted(_, _, _)
InsertSorted(h, sorted, e) ==
    IF sorted = <<>> THEN <<e>>
    ELSE IF AnnotLt(h[e], h[Head(sorted)]) THEN <<e>> \o sorted
         ELSE <<Head(sorted)>> \o InsertSorted(h, Tail(sorted), e)

RECURSIVE SortFrom(_, _, _)
SortFrom(h, sorted, rest) ==
    IF rest = <<>> THEN sorted
    ELSE SortFrom(h, InsertSorted(h, sorted, Head(rest)), Tail(rest))

\* a page loop that forgets page.annots.sort()
Sort_forgotten(h, ids) == ids

Sort(h, ids) == IF Len(ids) < 2 THEN ids ELSE SortFrom(h, <<>>, ids)

(***************************************************************************)
(* OrgPrinter.nearest_outline(pos): an outline is [title, pos]; the result *)
(* is None or the outline.                                                 *)
(***************************************************************************)
RECURSIVE NearestFrom(_, _, _)
NearestFrom(prev, outlines, pos) ==
    IF outlines = <<>> THEN prev
    ELSE IF PosLt(Head(outlines).pos, pos)
         THEN NearestFrom(Some(Head(outlines)), Tail(outlines), pos)
         ELSE prev

\* nearest_outline that stops at the first entry before pos
nearest_outline_first(outlines, pos) ==
    IF outlines = <<>> THEN None
    ELSE IF PosLt(Head(outlines).pos, pos) THEN Some(Head(outlines))
         ELSE None

nearest_outline(outlines, pos) == NearestFrom(None, outlines, pos)

(***************************************************************************)
(* What the variables hold while a specification does not use them.        *)
(***************************************************************************)
NoPrimitive == [kind |-> "none"]

NoPages == pageslist = <<>>

IdleDoc ==
    /\ doc = <<>>
    /\ allannots = <<>>
    /\ annots = {}
    /\ lasthit = {}
    /\ curline = {}
    /\ pc = "idle"
    /\ last = NoPrimitive
    /\ nrendered = 0

IdleAnnotation ==
    /\ heap = [i \in {} |-> {}]
    /\ captured = <<>>
    /\ got = <<>>

IdleCall ==
    /\ call = [op |-> "none"]
    /\ ret = <<>>

(***************************************************************************)
(* SpecAnnotation: one Annotation object, from its construction, under any *)
(* sequence of capture() calls, with gettext() read at any point.          *)
(***************************************************************************)
Self == <<0, 1>>

Str_auto == <<"a", "u", "t", "o", "-">>
Str_matic == <<"m", "a", "t", "i", "c">>
Str_hello == <<"h", "e", "l", "l", "o">>
Str_world == <<"w", "o", "r", "l", "d">>
Str_ligatures == <<"U+FB00", "U+FB01", "U+FB02", "U+FB03", "U+FB04">>
Str_quotes == <<"U+2018", "U+2019", "U+201C", "U+201D", "U+2026">>

\* the texts capture() is called with: NL, and texts of characters
CaptureTexts ==
    {NL, Str_auto, Str_matic, Str_hello, Str_world, <<" ">>, <<"\t">>,
     Str_ligatures, Str_quotes}

\* the QuadPoints of the object: absent, empty, or one quadrilateral
SelfCoords == {None, Some(<<>>), Some(<<1, 2, 3, 2, 1, 1, 3, 1>>)}

InitAnnotation ==
    /\ COLUMNS_PER_PAGE = 2
    /\ NoPages
    /\ IdleDoc
    /\ IdleCall
    /\ \E coords \in SelfCoords :
          heap = [i \in {Self} |->
                    NewAnnotation(Page(0, <<0, 0, 4, 2>>), "Highlight",
                                  coords, None, None)]
    /\ captured = <<>>
    /\ got = <<>>

Capture(text) ==
    /\ Len(captured) < MaxCaptures
    /\ heap' = [heap EXCEPT ![Self] = capture(@, text)]
    /\ captured' = Append(captured, text)
    /\ got' = <<>>
    /\ UNCHANGED <<COLUMNS_PER_PAGE, docvars, call, ret>>

Gettext ==
    /\ got = <<>>
    /\ got' = <<gettext(heap[Self])>>
    /\ UNCHANGED <<COLUMNS_PER_PAGE, docvars, heap, captured, call, ret>>

NextAnnotation ==
    \/ \E text \in CaptureTexts : Capture(text)
    \/ Gettext

SpecAnnotation == InitAnnotation /\ [][NextAnnotation]_vars

(***************************************************************************)
(* Properties of the Annotation object, under SpecAnnotation.             *)
(***************************************************************************)
Str_automatic == <<"a", "u", "t", "o", "m", "a", "t", "i", "c">>
Str_hello_world == <<"h", "e", "l", "l", "o", " ", "w", "o", "r", "l", "d">>

\* the newline broadcast rule, as the specification words it
NewlineRule(b) ==
    IF b # <<>> /\ b[Len(b)] = "-" THEN SubSeq(b, 1, Len(b) - 1)
    ELSE IF b = <<>> \/ b[Len(b)] # " " THEN b \o <<" ">>
    ELSE b

\* C1: delivering one line break to a buffer b leaves b without its last
\* character when b ends with "-", b followed by one space when b does not
\* end with a space, and b itself otherwise; so "auto-", line break,
\* "matic" leaves "automatic" and "hello", line break, "world" leaves
\* "hello world".
C1_NewlineBroadcast ==
    /\ [][captured' = Append(captured, NL)
            => heap'[Self].text = NewlineRule(heap[Self].text)]_vars
    /\ [](captured = <<Str_auto, NL, Str_matic>>
            => heap[Self].text = Str_automatic)
    /\ [](captured = <<Str_hello, NL, Str_world>>
            => heap[Self].text = Str_hello_world)

C1_Witness ==
    /\ captured = <<Str_auto, NL, Str_matic>>
    /\ heap[Self].text = Str_automatic

MissingText ==
    <<"(", "X", "X", "X", ":", " ", "m", "i", "s", "s", "i", "n", "g", " ",
      "t", "e", "x", "t", "!", ")">>

\* s from its first to its last character that is not whitespace
Trimmed(s) ==
    LET keep == {i \in 1..Len(s) : s[i] \notin Whitespace}
    IN  IF keep = {} THEN <<>>
        ELSE SubSeq(s, CHOOSE i \in keep : \A j \in keep : i <= j,
                       CHOOSE i \in keep : \A j \in keep : i >= j)

\* the ASCII equivalent of one character
AsciiOf(c) ==
    CASE c = "U+FB00" -> <<"f", "f">>
      [] c = "U+FB01" -> <<"f", "i">>
      [] c = "U+FB02" -> <<"f", "l">>
      [] c = "U+FB03" -> <<"f", "f", "i">>
      [] c = "U+FB04" -> <<"f", "f", "l">>
      [] c \in {"U+2018", "U+2019"} -> <<"'">>
      [] c \in {"U+201C", "U+201D"} -> <<"\"">>
      [] c = "U+2026" -> <<".", ".", ".">>
      [] OTHER -> <<c>>

\* s with every character replaced by its ASCII equivalent
RECURSIVE Asciified(_, _)
Asciified(s, n) ==
    IF n = 0 THEN <<>> ELSE Asciified(s, n - 1) \o AsciiOf(s[n])

RecoveredText(a) ==
    IF a.boxes = None \/ Len(Val(a.boxes)) = 0 THEN None
    ELSE IF Len(a.text) = 0 THEN Some(MissingText)
    ELSE Some(Asciified(Trimmed(a.text), Len(Trimmed(a.text))))

\* C4: gettext returns none when the annotation has no boxes, the
\* missing-text sentinel when it has boxes and an empty buffer, and otherwise
\* the buffer stripped of leading and trailing whitespace with every
\* character of the substitution table replaced by its ASCII equivalent; the
\* call does not change the buffer.
C4_Gettext ==
    /\ [](got # <<>> => got[1] = RecoveredText(heap[Self]))
    /\ [][got = <<>> /\ got' # <<>> => heap' = heap]_vars

C4_Witness ==
    /\ captured = <<<<" ">>, Str_ligatures, <<"\t">>>>
    /\ got = <<Some(<<"f", "f", "f", "i", "f", "l", "f", "f", "i",
                      "f", "f", "l">>)>>

\* the buffer after the first n captures
RECURSIVE BufferAfter(_)
BufferAfter(n) ==
    IF n = 0 THEN <<>>
    ELSE capture([text |-> BufferAfter(n - 1)], captured[n]).text

\* the number of spaces of a buffer, and whether two of them are adjacent
Spaces(b) == Cardinality({i \in 1..Len(b) : b[i] = " "})
DoubleSpace(b) == \E i \in 1..(Len(b) - 1) : b[i] = " " /\ b[i + 1] = " "

\* C14: line breaks never double a space: when a buffer has no two adjacent
\* spaces, after any run of one or more consecutive line-break captures it
\* still has none, and it has at most one space more than before the run.
C14_NoDoubleSpace ==
    /\ BufferAfter(Len(captured)) = heap[Self].text
    /\ \A i \in 1..Len(captured) :
          ((\A k \in i..Len(captured) : captured[k] = NL)
              /\ ~DoubleSpace(BufferAfter(i - 1)))
          => /\ ~DoubleSpace(heap[Self].text)
             /\ Spaces(heap[Self].text) <= Spaces(BufferAfter(i - 1)) + 1

\* two line breaks after "auto-": the first takes the hyphen, the second
\* adds the only space
C14_Witness ==
    /\ captured = <<Str_auto, NL, NL>>
    /\ heap[Self].text = <<"a", "u", "t", "o", " ">>

\* the last two captures were line breaks
TwoLineBreaks ==
    /\ Len(captured) >= 2
    /\ captured[Len(captured)] = NL
    /\ captured[Len(captured) - 1] = NL

\* C24 (as stated): delivering a line break is idempotent: two consecutive
\* line breaks leave the buffer that one line break leaves, whatever the
\* buffer was, a buffer that ends with a hyphen included.
C24_Idempotent ==
    TwoLineBreaks => heap[Self].text = BufferAfter(Len(captured) - 1)

\* C24 (amended): each line break applies the newline broadcast rule, so
\* two consecutive line breaks leave the buffer that one line break leaves
\* when the buffer did not end with a hyphen; when it did, the first takes
\* the hyphen and the second applies the rule to what is left: a word that
\* ended with one hyphen ends with a space.
C24_IdempotentUnlessHyphen ==
    TwoLineBreaks =>
        LET b == BufferAfter(Len(captured) - 2)
            once == BufferAfter(Len(captured) - 1)
        IN  /\ once = NewlineRule(b)
            /\ heap[Self].text = NewlineRule(once)
            /\ ~EndsWith(b, "-") => heap[Self].text = once
            /\ EndsWith(b, "-") =>
                  /\ once = SubSeq(b, 1, Len(b) - 1)
                  /\ (~EndsWith(once, "-") /\ ~EndsWith(once, " "))
                        => heap[Self].text = once \o <<" ">>

\* "hello" and two line breaks: one space
C24_Witness ==
    /\ captured = <<Str_hello, NL, NL>>
    /\ heap[Self].text = <<"h", "e", "l", "l", "o", " ">>

(***************************************************************************)
(* SpecBoxhit: boxhit called once on any item box and annotation box of    *)
(* the grid (both with x0 <= x1 and y0 <= y1, as boxhit asserts).          *)
(***************************************************************************)
GridBoxes ==
    {b \in (0..MaxX) \X (0..MaxY) \X (0..MaxX) \X (0..MaxY) :
        b[1] <= b[3] /\ b[2] <= b[4]}

InitBoxhit ==
    /\ COLUMNS_PER_PAGE = 2
    /\ NoPages
    /\ IdleDoc
    /\ IdleAnnotation
    /\ call \in {[op |-> "boxhit", item |-> i, box |-> b] :
                    i \in GridBoxes, b \in GridBoxes}
    /\ ret = <<>>

CallBoxhit ==
    /\ call.op = "boxhit"
    /\ ret = <<>>
    /\ ret' = <<boxhit(call.item, call.box)>>
    /\ UNCHANGED <<COLUMNS_PER_PAGE, docvars, heap, captured, got, call>>

NextBoxhit == CallBoxhit

SpecBoxhit == InitBoxhit /\ [][NextBoxhit]_vars

\* the unit cells of the grid a box covers
Cells(b) == {<<i, j>> : i \in b[1]..(b[3] - 1), j \in b[2]..(b[4] - 1)}

\* C3: boxhit(p, b) is true exactly when p has non-zero area and the area of
\* the intersection of p and b is at least half of p's area; it is false for
\* every zero-area p.
C3_Boxhit ==
    (call.op = "boxhit" /\ ret # <<>>) =>
        LET p == call.item
            b == call.box
            area == Cardinality(Cells(p))
            common == Cardinality(Cells(p) \cap Cells(b))
        IN  /\ ret[1] = (area # 0 /\ 2 * common >= area)
            /\ (p[1] = p[3] \/ p[2] = p[4]) => ret[1] = FALSE

\* exactly half of the item lies in the box
C3_Witness ==
    /\ call.op = "boxhit"
    /\ call.item = <<0, 0, 2, 1>>
    /\ call.box = <<1, 0, 3, 1>>
    /\ ret = <<TRUE>>

\* the item of the call lies fully inside the box of the call
Inside ==
    /\ call.op = "boxhit"
    /\ ret # <<>>
    /\ call.box[1] <= call.item[1]
    /\ call.item[3] <= call.box[3]
    /\ call.box[2] <= call.item[2]
    /\ call.item[4] <= call.box[4]

\* C13 (as stated): boxhit is true for every primitive box that lies fully
\* inside the annotation box.
C13_Inside == Inside => ret[1]

\* C13 (amended): boxhit is true for every primitive box of non-zero area
\* that lies fully inside the annotation box, and false for one of zero
\* area, inside or not.
C13_InsideWithArea ==
    Inside => (ret[1] <=> (call.item[1] < call.item[3]
                           /\ call.item[2] < call.item[4]))

\* a unit item strictly inside a larger box
C13_Witness ==
    /\ Inside
    /\ call.item = <<1, 0, 2, 1>>
    /\ call.box = <<0, 0, 4, 2>>
    /\ ret = <<TRUE>>

(***************************************************************************)
(* SpecPos: Pos.__lt__ called once on any two anchors of a document of two *)
(* pages, for every column count and media box of the model.               *)
(***************************************************************************)
\* the media boxes of the first page, with their left edge at 0 and at 2
\* (the second page's has its corner at (1, 1))
Mediaboxes == {<<0, 0, MaxX, MaxY>>, <<2, 0, MaxX, MaxY>>}

\* class Page
NewPage(pageno, mb) == [pageno |-> pageno, mediabox |-> mb, annots |-> <<>>]

\* the reference to a Page object that a Pos or an Annotation holds
PageRef(pg) == Page(pg.pageno, pg.mediabox)

\* the positions on the pages of pageslist, up to one unit outside the
\* largest media box
Anchors ==
    {[page |-> PageRef(pageslist[i]), x |-> x, y |-> y] :
        i \in 1..Len(pageslist), x \in (-1)..(MaxX + 1),
        y \in (-1)..(MaxY + 1)}

InitPos ==
    /\ COLUMNS_PER_PAGE \in 1..MaxCols
    /\ \E mb \in Mediaboxes :
          pageslist = <<NewPage(0, mb), NewPage(1, <<1, 1, MaxX, MaxY>>)>>
    /\ IdleDoc
    /\ IdleAnnotation
    /\ call \in {[op |-> "Pos.__lt__", self |-> a, other |-> b] :
                    a \in Anchors, b \in Anchors}
    /\ ret = <<>>

CallPosLt ==
    /\ call.op = "Pos.__lt__"
    /\ ret = <<>>
    /\ ret' = <<PosLt(call.self, call.other)>>
    /\ UNCHANGED <<COLUMNS_PER_PAGE, docvars, heap, captured, got, call>>

NextPos == CallPosLt

SpecPos == InitPos /\ [][NextPos]_vars

\* x and y clamped into the media box of the anchor's page
ClampedX(p) == Max(p.page.mediabox[1], Min(p.x, p.page.mediabox[3]))
ClampedY(p) == Max(p.page.mediabox[2], Min(p.y, p.page.mediabox[4]))

\* floor((clampedX - x0) / ((x1 - x0) / columnsPerPage)): the k with
\* k * columnWidth <= clampedX - x0 < (k + 1) * columnWidth
ColumnIndex(p) ==
    LET x0 == p.page.mediabox[1]
        width == p.page.mediabox[3] - x0
    IN  CHOOSE k \in 0..COLUMNS_PER_PAGE :
            /\ k * width <= (ClampedX(p) - x0) * COLUMNS_PER_PAGE
            /\ (ClampedX(p) - x0) * COLUMNS_PER_PAGE < (k + 1) * width

PosLtDone == call.op = "Pos.__lt__" /\ ret # <<>>

\* C6: a < b exactly when a's page index is smaller, or they are on the same
\* page and a's columnIndex is smaller, or the columnIndexes are equal and
\* a's clamped y is greater; anchors on different pages are ordered by page
\* index alone.
C6_PosLt ==
    PosLtDone =>
        LET a == call.self
            b == call.other
        IN  /\ ret[1] = \/ a.page.pageno < b.page.pageno
                        \/ /\ a.page.pageno = b.page.pageno
                           /\ \/ ColumnIndex(a) < ColumnIndex(b)
                              \/ /\ ColumnIndex(a) = ColumnIndex(b)
                                 /\ ClampedY(a) > ClampedY(b)
            /\ a.page.pageno # b.page.pageno
                  => ret[1] = (a.page.pageno < b.page.pageno)

\* a left-column anchor at the bottom is less than a right-column anchor at
\* the top of the same page
C6_Witness ==
    /\ PosLtDone
    /\ COLUMNS_PER_PAGE = 2
    /\ call.self = [page |-> PageRef(pageslist[1]), x |-> 0, y |-> 0]
    /\ call.other = [page |-> PageRef(pageslist[1]), x |-> MaxX, y |-> MaxY]
    /\ ret = <<TRUE>>

\* neither anchor is less than the other
Tie(a, b) == ~PosLt(a, b) /\ ~PosLt(b, a)

\* C7 (as stated): the comparator is a strict total order: irreflexive,
\* transitive, and two anchors of the same page tie only when their (x, y)
\* coordinates are equal.
C7_TotalOrder ==
    PosLtDone =>
        LET a == call.self
            b == call.other
        IN  /\ a = b => ~ret[1]
            /\ \A c \in Anchors : (ret[1] /\ PosLt(b, c)) => PosLt(a, c)
            /\ (a.page = b.page /\ ~ret[1] /\ ~PosLt(b, a))
                  => (a.x = b.x /\ a.y = b.y)

\* C7 (amended): the comparator is a strict weak order: it is irreflexive,
\* asymmetric and transitive, ties are transitive, anchors of different
\* pages never tie, and two anchors of the same page tie exactly when they
\* have the same columnIndex and the same clamped y (anchors with equal
\* coordinates among them).
C7_StrictWeakOrder ==
    PosLtDone =>
        LET a == call.self
            b == call.other
            tie == ~ret[1] /\ ~PosLt(b, a)
        IN  /\ a = b => ~ret[1]
            /\ ret[1] => ~PosLt(b, a)
            /\ \A c \in Anchors : (ret[1] /\ PosLt(b, c)) => PosLt(a, c)
            /\ \A c \in Anchors : (tie /\ Tie(b, c)) => Tie(a, c)
            /\ a.page # b.page => ~tie
            /\ a.page = b.page =>
                  (tie <=> /\ ColumnIndex(a) = ColumnIndex(b)
                           /\ ClampedY(a) = ClampedY(b))
            /\ (a.page = b.page /\ a.x = b.x /\ a.y = b.y) => tie

\* two anchors of one column at the same height, with different x, tie
C7_Witness ==
    /\ PosLtDone
    /\ COLUMNS_PER_PAGE = 2
    /\ pageslist[1].mediabox = <<0, 0, MaxX, MaxY>>
    /\ call.self = [page |-> PageRef(pageslist[1]), x |-> 0, y |-> 1]
    /\ call.other = [page |-> PageRef(pageslist[1]), x |-> 1, y |-> 1]
    /\ ret = <<FALSE>>
    /\ ~PosLt(call.other, call.self)

\* the call compares two anchors of one page of two columns, the second at
\* half the page's width plus one from x
HalfWidthPlusOneFrom(x) ==
    /\ PosLtDone
    /\ COLUMNS_PER_PAGE = 2
    /\ call.self.page = call.other.page
    /\ 2 * (call.other.x - x)
          = (call.self.page.mediabox[3] - call.self.page.mediabox[1]) + 2

\* C12 (as stated): on a page of width W with two columns, wherever its
\* media box starts, an anchor at x = 0 is less than an anchor at
\* x = W/2 + 1 of the same page, whatever the two y values.
C12_FromZero ==
    (HalfWidthPlusOneFrom(0) /\ call.self.x = 0) => ret[1]

\* C12 (amended): on a page of width W with two columns and a media box
\* whose left edge is x0, an anchor at x = x0 is less than an anchor at
\* x = x0 + W/2 + 1 of the same page, whatever the two y values; these are
\* x = 0 and x = W/2 + 1 when the media box starts at 0.
C12_FromLeftEdge ==
    (HalfWidthPlusOneFrom(call.self.page.mediabox[1])
        /\ call.self.x = call.self.page.mediabox[1]) => ret[1]

\* on a page whose media box starts at 2, the anchor at the bottom of the
\* left edge is less than the anchor half a width plus one to its right, at
\* the top
C12_Witness ==
    /\ HalfWidthPlusOneFrom(2)
    /\ call.self.page.mediabox[1] = 2
    /\ call.self.x = 2
    /\ call.self.y < call.other.y
    /\ call.other.y = MaxY
    /\ ret = <<TRUE>>

\* C25 (as stated): the column index the comparator computes for an anchor,
\* after clamping, is one of 0 .. columnsPerPage - 1, for anchors on or
\* beyond the right edge of the media box too.
C25_ColumnInRange ==
    PosLtDone =>
        /\ ColumnOf(call.self) \in 0..(COLUMNS_PER_PAGE - 1)
        /\ ColumnOf(call.other) \in 0..(COLUMNS_PER_PAGE - 1)

\* the column index of p is in 0 .. columnsPerPage, and it is columnsPerPage
\* exactly when p is on or beyond the right edge of its media box
ColumnUpToRightEdge(p) ==
    /\ ColumnOf(p) \in 0..COLUMNS_PER_PAGE
    /\ ColumnOf(p) = COLUMNS_PER_PAGE <=> p.x >= p.page.mediabox[3]
    /\ ColumnOf(p) = ColumnIndex(p)

\* C25 (amended): the column index the comparator computes for an anchor,
\* after clamping, is one of 0 .. columnsPerPage: it is one of
\* 0 .. columnsPerPage - 1 for an anchor left of the right edge of the media
\* box (x < x1) and it is columnsPerPage for an anchor on or beyond it.
C25_ColumnUpToRightEdge ==
    PosLtDone =>
        ColumnUpToRightEdge(call.self) /\ ColumnUpToRightEdge(call.other)

\* an anchor on the right edge of a page of two columns is in column 2, and
\* an anchor of column 1 is less than it
C25_Witness ==
    /\ PosLtDone
    /\ COLUMNS_PER_PAGE = 2
    /\ call.self.page = call.other.page
    /\ call.self.page.mediabox = <<0, 0, MaxX, MaxY>>
    /\ call.other.x = MaxX
    /\ ColumnOf(call.other) = 2
    /\ ColumnOf(call.self) = 1
    /\ call.self.y < call.other.y
    /\ ret = <<TRUE>>

(***************************************************************************)
(* SpecOutline: nearest_outline called once, on any outline list (in any   *)
(* order: the code takes the bookmarks as they come) and query position.   *)
(***************************************************************************)
OutlineAnchors == {a \in Anchors : a.x \in {0, MaxX} /\ a.y \in {0, MaxY}}

\* the outline lists: entry i carries the title i
OutlineLists ==
    UNION {{[i \in 1..n |-> [title |-> i, pos |-> f[i]]] :
               f \in [1..n -> OutlineAnchors]} : n \in 0..MaxOutlines}

InitOutline ==
    /\ COLUMNS_PER_PAGE \in {1, 2}
    /\ pageslist = <<NewPage(0, <<0, 0, MaxX, MaxY>>),
                     NewPage(1, <<0, 0, MaxX, MaxY>>)>>
    /\ IdleDoc
    /\ IdleAnnotation
    /\ call \in {[op |-> "nearest_outline", outlines |-> os, pos |-> q] :
                    os \in OutlineLists, q \in OutlineAnchors}
    /\ ret = <<>>

CallNearestOutline ==
    /\ call.op = "nearest_outline"
    /\ ret = <<>>
    /\ ret' = <<nearest_outline(call.outlines, call.pos)>>
    /\ UNCHANGED <<COLUMNS_PER_PAGE, docvars, heap, captured, got, call>>

NextOutline == CallNearestOutline

SpecOutline == InitOutline /\ [][NextOutline]_vars

\* no entry is less than an earlier one
NonDecreasing(os) ==
    \A i \in 1..Len(os) : \A j \in (i + 1)..Len(os) :
        ~PosLt(os[j].pos, os[i].pos)

\* C8: on a list that is non-decreasing under the comparator,
\* nearest_outline(q) returns the last entry whose anchor is strictly less
\* than q, and none when there is no such entry (the empty list included).
C8_NearestOutline ==
    (call.op = "nearest_outline" /\ ret # <<>>
        /\ NonDecreasing(call.outlines)) =>
        LET os == call.outlines
            before == {i \in 1..Len(os) : PosLt(os[i].pos, call.pos)}
        IN  ret[1] = IF before = {} THEN None
                     ELSE Some(os[CHOOSE i \in before :
                                     \A j \in before : j <= i])

\* P1 < Q < P2 < P3 and the entry at P1 is returned
C8_Witness ==
    /\ call.op = "nearest_outline"
    /\ Len(call.outlines) = 3
    /\ PosLt(call.outlines[1].pos, call.pos)
    /\ PosLt(call.pos, call.outlines[2].pos)
    /\ PosLt(call.outlines[2].pos, call.outlines[3].pos)
    /\ ret = <<Some(call.outlines[1])>>

(***************************************************************************)
(* Spec: process_file on one document.  The layout collaborator hands each *)
(* page's primitives to RectExtractor.render one at a time, in the order   *)
(* of the depth-first traversal: a character (LTChar) with its text and    *)
(* box, an untethered marker (LTAnno) with its text, and the end of a text *)
(* box (LTTextBox, once its children are rendered) with its box.  Other    *)
(* containers do nothing of their own.  A character's text is a glyph's    *)
(* text, never the line break "\n": line breaks come as markers.           *)
(***************************************************************************)
\* the QuadPoints of one box
Quad(b) == <<b[1], b[4], b[3], b[4], b[1], b[2], b[3], b[2]>>

\* raw annotation records (the dictionaries getannots reads)
Raw(subtype, coords, rect, contents) ==
    [Subtype |-> subtype, QuadPoints |-> coords, Rect |-> rect,
     Contents |-> contents]

\* a highlight of two overlapping boxes in the left half, at the top
RawHighlight ==
    Raw(Some("Highlight"), Some(Quad(<<0, 1, 2, 2>>) \o Quad(<<1, 1, 3, 2>>)),
        Some(<<0, 1, 3, 2>>), None)
\* a strike-out of one box in the right half, at the top, with no comment
RawStrikeOut ==
    Raw(Some("StrikeOut"), Some(Quad(<<2, 1, 4, 2>>)), Some(<<2, 1, 4, 2>>),
        None)
\* a note with a comment and no boxes, lower on the page
RawText == Raw(Some("Text"), None, Some(<<1, 0, 2, 1>>), Some(<<"c">>))
\* a record of a kind that is not retained
RawLink == Raw(Some("Link"), None, Some(<<0, 0, 1, 1>>), None)

\* the annotation lists a page may carry
PageAnnots ==
    {<<>>, <<RawText, RawStrikeOut, RawHighlight>>, <<RawLink, RawStrikeOut>>}

\* the documents: two pages, the second with at most one retained record
Documents ==
    {<<[mediabox |-> <<0, 0, 4, 2>>, annots |-> p0],
       [mediabox |-> <<0, 0, 4, 2>>, annots |-> p1]>> :
        p0 \in PageAnnots, p1 \in {p \in PageAnnots : Len(p) < 3}}

\* the primitives of a page
CharTexts == {<<"a">>, <<"-">>}
CharBoxes == {<<1, 1, 2, 2>>, <<2, 1, 3, 2>>, <<3, 1, 4, 2>>, <<0, 0, 1, 1>>}
AnnoTexts == {NL, <<" ">>}
TextBoxes == {<<0, 1, 4, 2>>, <<3, 0, 4, 2>>}

Init ==
    /\ COLUMNS_PER_PAGE \in {1, 2}
    /\ doc \in Documents
    /\ pageslist = <<>>
    /\ heap = [i \in {} |-> {}]
    /\ allannots = <<>>
    /\ annots = {}
    /\ lasthit = {}
    /\ curline = {}
    /\ pc = "pages"
    /\ last = NoPrimitive
    /\ nrendered = 0
    /\ captured = <<>>
    /\ got = <<>>
    /\ IdleCall

\* getannots(pdfannots, page): the new Annotation objects, by identity, and
\* the list of them; it raises on a record without a Subtype (subtype.name)
GetannotsRaises(pdfannots) ==
    \E k \in 1..Len(pdfannots) : pdfannots[k].Subtype = None

Retained(pa) == Val(pa.Subtype) \in ANNOT_SUBTYPES

getannots_ids(pdfannots, pageno) ==
    SelectSeq([k \in 1..Len(pdfannots) |-> <<pageno, k>>],
              LAMBDA id : Retained(pdfannots[id[2]]))

\* contents.replace('\r\n', '\n').replace('\r', '\n')
RECURSIVE NormaliseLineEndings(_)
NormaliseLineEndings(s) ==
    IF s = <<>> THEN <<>>
    ELSE IF Head(s) = "\r"
         THEN <<"\n">> \o NormaliseLineEndings(
                  IF Len(s) > 1 /\ s[2] = "\n" THEN Tail(Tail(s)) ELSE Tail(s))
         ELSE <<Head(s)>> \o NormaliseLineEndings(Tail(s))

getannots_objects(pdfannots, page) ==
    [id \in {<<page.pageno, k>> : k \in {j \in 1..Len(pdfannots) :
                                        Retained(pdfannots[j])}} |->
        LET pa == pdfannots[id[2]]
        IN  NewAnnotation(page, Val(pa.Subtype), pa.QuadPoints, pa.Rect,
                IF pa.Contents = None THEN None
                ELSE Some(Substitute(NormaliseLineEndings(Val(pa.Contents)))))]

\* setannots that keeps the annotations of the earlier pages
setannots_every_page(h, ids) == {a \in DOMAIN h : HasBoxes(h[a])}

\* RectExtractor.setannots(annots)
setannots(h, ids) == {ids[i] : i \in {j \in 1..Len(ids) : HasBoxes(h[ids[j]])}}

\* testboxes that looks at the first box of an annotation only
testboxes_first_box(item) ==
    {a \in annots : boxhit(item, Val(heap[a].boxes)[1])}

\* the hits of RectExtractor.testboxes(item)
testboxes(item) ==
    {a \in annots : \E i \in 1..Len(Val(heap[a].boxes)) :
                        boxhit(item, Val(heap[a].boxes)[i])}

\* a.capture(text) for every a of a set
CaptureAll(h, ids, text) ==
    [a \in DOMAIN h |-> IF a \in ids THEN capture(h[a], text) ELSE h[a]]

\* the page loop with a receive_layout that keeps _lasthit and _curline
NextPage_keeps_hits ==
    /\ pc = "pages"
    /\ Len(pageslist) < Len(doc)
    /\ LET pageno == Len(pageslist)
           pdfpage == doc[pageno + 1]
           objects == getannots_objects(pdfpage.annots,
                                        Page(pageno, pdfpage.mediabox))
           h == objects @@ heap
           ids == getannots_ids(pdfpage.annots, pageno)
           raises == GetannotsRaises(pdfpage.annots) \/ SortRaises(h, ids)
       IN  IF pdfpage.annots = <<>>
           THEN /\ pageslist' = Append(pageslist,
                                       NewPage(pageno, pdfpage.mediabox))
                /\ UNCHANGED <<heap, annots, lasthit, curline, pc>>
           ELSE IF raises
           THEN /\ pageslist' = Append(pageslist,
                                       NewPage(pageno, pdfpage.mediabox))
                /\ pc' = "failed"
                /\ UNCHANGED <<heap, annots, lasthit, curline>>
           ELSE /\ pageslist' = Append(pageslist,
                    [NewPage(pageno, pdfpage.mediabox) EXCEPT
                        !.annots = Sort(h, ids)])
                /\ heap' = h
                /\ annots' = setannots(h, ids)
                /\ UNCHANGED <<lasthit, curline>>
                /\ pc' = "render"
    /\ last' = NoPrimitive
    /\ UNCHANGED <<COLUMNS_PER_PAGE, doc, allannots, nrendered, captured, got,
                   call, ret>>

\* one turn of the page loop of process_file, up to the start of the
\* page's traversal (receive_layout resets _lasthit and _curline)
NextPage ==
    /\ pc = "pages"
    /\ Len(pageslist) < Len(doc)
    /\ LET pageno == Len(pageslist)
           pdfpage == doc[pageno + 1]
           objects == getannots_objects(pdfpage.annots,
                                        Page(pageno, pdfpage.mediabox))
           h == objects @@ heap
           ids == getannots_ids(pdfpage.annots, pageno)
           raises == GetannotsRaises(pdfpage.annots) \/ SortRaises(h, ids)
       IN  IF pdfpage.annots = <<>>
           THEN /\ pageslist' = Append(pageslist,
                                       NewPage(pageno, pdfpage.mediabox))
                /\ UNCHANGED <<heap, annots, lasthit, curline, pc>>
           ELSE IF raises
           THEN /\ pageslist' = Append(pageslist,
                                       NewPage(pageno, pdfpage.mediabox))
                /\ pc' = "failed"
                /\ UNCHANGED <<heap, annots, lasthit, curline>>
           ELSE /\ pageslist' = Append(pageslist,
                    [NewPage(pageno, pdfpage.mediabox) EXCEPT
                        !.annots = Sort(h, ids)])
                /\ heap' = h
                /\ annots' = setannots(h, ids)
                /\ lasthit' = {}
                /\ curline' = {}
                /\ pc' = "render"
    /\ last' = NoPrimitive
    /\ UNCHANGED <<COLUMNS_PER_PAGE, doc, allannots, nrendered, captured, got,
                   call, ret>>

\* render(item), item an LTChar
RenderChar(text, bbox) ==
    /\ pc = "render"
    /\ nrendered < MaxRendered
    /\ LET hits == testboxes(bbox)
       IN  /\ lasthit' = hits
           /\ curline' = curline \cup hits
           /\ heap' = CaptureAll(heap, hits, text)
    /\ last' = [kind |-> "char", text |-> text, bbox |-> bbox]
    /\ nrendered' = nrendered + 1
    /\ UNCHANGED <<COLUMNS_PER_PAGE, doc, pageslist, allannots, annots, pc,
                   captured, got, call, ret>>

\* render() that sends an inferred space to the whole current line
RenderAnno_curline(text) ==
    /\ pc = "render"
    /\ nrendered < MaxRendered
    /\ heap' = CaptureAll(heap, curline, text)
    /\ curline' = IF text = NL THEN {} ELSE curline
    /\ last' = [kind |-> "anno", text |-> text]
    /\ nrendered' = nrendered + 1
    /\ UNCHANGED <<COLUMNS_PER_PAGE, doc, pageslist, allannots, annots,
                   lasthit, pc, captured, got, call, ret>>

\* render() that sends a line break to the last hits only
RenderAnno_lasthit(text) ==
    /\ pc = "render"
    /\ nrendered < MaxRendered
    /\ heap' = CaptureAll(heap, lasthit, text)
    /\ curline' = IF text = NL THEN {} ELSE curline
    /\ last' = [kind |-> "anno", text |-> text]
    /\ nrendered' = nrendered + 1
    /\ UNCHANGED <<COLUMNS_PER_PAGE, doc, pageslist, allannots, annots,
                   lasthit, pc, captured, got, call, ret>>

\* render(item), item an LTAnno
RenderAnno(text) ==
    /\ pc = "render"
    /\ nrendered < MaxRendered
    /\ IF text = NL
       THEN \* capture_newline()
            /\ heap' = CaptureAll(heap, curline, NL)
            /\ curline' = {}
       ELSE /\ heap' = CaptureAll(heap, lasthit, text)
            /\ UNCHANGED curline
    /\ last' = [kind |-> "anno", text |-> text]
    /\ nrendered' = nrendered + 1
    /\ UNCHANGED <<COLUMNS_PER_PAGE, doc, pageslist, allannots, annots,
                   lasthit, pc, captured, got, call, ret>>

\* render() that ends a text box without testing its box
RenderTextBoxEnd_untested(bbox) ==
    /\ pc = "render"
    /\ nrendered < MaxRendered
    /\ heap' = CaptureAll(heap, curline, NL)
    /\ curline' = {}
    /\ last' = [kind |-> "textbox", bbox |-> bbox]
    /\ nrendered' = nrendered + 1
    /\ UNCHANGED <<COLUMNS_PER_PAGE, doc, pageslist, allannots, annots,
                   lasthit, pc, captured, got, call, ret>>

\* render() that ends a text box and keeps the last hits of the characters
RenderTextBoxEnd_keeps_lasthit(bbox) ==
    /\ pc = "render"
    /\ nrendered < MaxRendered
    /\ heap' = CaptureAll(heap, curline \cup testboxes(bbox), NL)
    /\ curline' = {}
    /\ last' = [kind |-> "textbox", bbox |-> bbox]
    /\ nrendered' = nrendered + 1
    /\ UNCHANGED <<COLUMNS_PER_PAGE, doc, pageslist, allannots, annots,
                   lasthit, pc, captured, got, call, ret>>

\* render(item), item an LTTextBox, after its children: testboxes(item),
\* then capture_newline()
RenderTextBoxEnd(bbox) ==
    /\ pc = "render"
    /\ nrendered < MaxRendered
    /\ LET hits == testboxes(bbox)
       IN  /\ lasthit' = hits
           /\ heap' = CaptureAll(heap, curline \cup hits, NL)
           /\ curline' = {}
    /\ last' = [kind |-> "textbox", bbox |-> bbox]
    /\ nrendered' = nrendered + 1
    /\ UNCHANGED <<COLUMNS_PER_PAGE, doc, pageslist, allannots, annots, pc,
                   captured, got, call, ret>>

\* the page's traversal returns: allannots.extend(page.annots)
EndPage ==
    /\ pc = "render"
    /\ allannots' = allannots \o pageslist[Len(pageslist)].annots
    /\ pc' = "pages"
    /\ last' = NoPrimitive
    /\ UNCHANGED <<COLUMNS_PER_PAGE, doc, pageslist, heap, annots, lasthit,
                   curline, nrendered, captured, got, call, ret>>

\* the page loop is over: process_file returns allannots
Return ==
    /\ pc = "pages"
    /\ Len(pageslist) = Len(doc)
    /\ pc' = "done"
    /\ UNCHANGED <<COLUMNS_PER_PAGE, doc, pageslist, heap, allannots, annots,
                   lasthit, curline, last, nrendered, captured, got, call,
                   ret>>

Next ==
    \/ NextPage
    \/ \E text \in CharTexts, bbox \in CharBoxes : RenderChar(text, bbox)
    \/ \E text \in AnnoTexts : RenderAnno(text)
    \/ \E bbox \in TextBoxes : RenderTextBoxEnd(bbox)
    \/ EndPage
    \/ Return

Spec == Init /\ [][Next]_vars

(***************************************************************************)
(* Properties of the traversal and of the page loop, under Spec.           *)
(***************************************************************************)
\* the geometry test as the specification words it: the item has area and
\* at least half of it lies in the box
Overlaps(item, box) ==
    /\ Cells(item) # {}
    /\ 2 * Cardinality(Cells(item) \cap Cells(box)) >= Cardinality(Cells(item))

\* the annotations of the page being traversed with a box that overlaps item
Matched(item) ==
    {a \in DOMAIN heap :
        /\ heap[a].page.pageno = Len(pageslist) - 1
        /\ heap[a].boxes # None
        /\ \E i \in 1..Len(Val(heap[a].boxes)) :
              Overlaps(item, Val(heap[a].boxes)[i])}

\* the step renders a primitive of the given kind
Renders(kind) ==
    pc = "render" /\ nrendered' = nrendered + 1 /\ last'.kind = kind

\* C2: processing a positioned character appends its text exactly once to
\* the buffer of every annotation of the current page with a box that
\* overlaps it, leaves every other annotation unchanged, sets lastHit to the
\* matched set and adds the matched set to currentLine.
C2_Character ==
    [][Renders("char") =>
        LET matched == Matched(last'.bbox)
        IN  /\ DOMAIN heap' = DOMAIN heap
            /\ \A a \in DOMAIN heap :
                  heap'[a] = IF a \in matched
                             THEN [heap[a] EXCEPT !.text = @ \o last'.text]
                             ELSE heap[a]
            /\ lasthit' = matched
            /\ curline' = curline \cup matched]_vars

\* a character inside both boxes of the highlight was captured once, after
\* a character that only the strike-out matched
C2_Witness ==
    /\ pc = "render"
    /\ Len(pageslist) = 1
    /\ last = [kind |-> "char", text |-> <<"a">>, bbox |-> <<1, 1, 2, 2>>]
    /\ <<0, 3>> \in DOMAIN heap
    /\ heap[<<0, 3>>].tagname = "Highlight"
    /\ heap[<<0, 3>>].text = <<"a">>
    /\ heap[<<0, 2>>].text = <<"-">>
    /\ lasthit = {<<0, 3>>}
    /\ curline = {<<0, 2>>, <<0, 3>>}

\* the annotations whose page's traversal has ended
Traversed == {allannots[i] : i \in 1..Len(allannots)}

\* C5: after the traversal of its page an annotation with at least one box
\* never exposes blank recovered text: gettext returns a non-empty string
\* (recovered text or the missing-text sentinel), never the empty string.
C5_NeverBlank ==
    \A a \in Traversed :
        HasBoxes(heap[a]) =>
            /\ gettext(heap[a]) # None
            /\ Val(gettext(heap[a])) # <<>>

\* the start position of the i-th annotation of allannots
StartOf(i) == Val(getstartpos(heap[allannots[i]]))

\* C9: the list process_file returns is sorted under the anchor comparator:
\* no annotation is less than an earlier one, the annotations of a lower
\* page come before those of a higher page, and within a page they are in
\* column-then-top-down order.
C9_Sorted ==
    pc = "done" =>
        \A i \in 1..Len(allannots) : \A j \in (i + 1)..Len(allannots) :
            /\ ~AnnotLt(heap[allannots[j]], heap[allannots[i]])
            /\ StartOf(i).page.pageno <= StartOf(j).page.pageno
            /\ StartOf(i).page.pageno = StartOf(j).page.pageno =>
                  \/ ColumnIndex(StartOf(i)) < ColumnIndex(StartOf(j))
                  \/ /\ ColumnIndex(StartOf(i)) = ColumnIndex(StartOf(j))
                     /\ ClampedY(StartOf(i)) >= ClampedY(StartOf(j))

\* two pages returned; on the first the highlight, given last, comes first,
\* above the note of the same column, and the right-column strike-out last
C9_Witness ==
    /\ pc = "done"
    /\ COLUMNS_PER_PAGE = 2
    /\ doc[1].annots = <<RawText, RawStrikeOut, RawHighlight>>
    /\ allannots = <<<<0, 3>>, <<0, 1>>, <<0, 2>>, <<1, 2>>>>
    /\ heap[<<0, 3>>].tagname = "Highlight"
    /\ heap[<<0, 1>>].tagname = "Text"

\* C10: processing an untethered whitespace marker that is not a line break
\* appends its text to the buffer of exactly the annotations in lastHit and
\* leaves every other annotation unchanged, those in currentLine but not in
\* lastHit included; lastHit and currentLine are unchanged.
C10_Whitespace ==
    [][(Renders("anno") /\ last'.text # NL) =>
        /\ DOMAIN heap' = DOMAIN heap
        /\ \A a \in DOMAIN heap :
              heap'[a] = IF a \in lasthit
                         THEN [heap[a] EXCEPT !.text = @ \o last'.text]
                         ELSE heap[a]
        /\ lasthit' = lasthit
        /\ curline' = curline]_vars

\* the space went to the strike-out, matched last, and not to the highlight,
\* matched earlier on the line
C10_Witness ==
    /\ pc = "render"
    /\ last = [kind |-> "anno", text |-> <<" ">>]
    /\ lasthit = {<<0, 2>>}
    /\ curline = {<<0, 2>>, <<0, 3>>}
    /\ heap[<<0, 2>>].text = <<"a", " ">>
    /\ heap[<<0, 3>>].text = <<"a">>

\* C11: processing an untethered line-break marker applies the newline
\* broadcast rule to the buffer of every annotation in currentLine, those
\* whose most recent character did not match included, leaves every
\* annotation outside currentLine unchanged, and empties currentLine.
C11_LineBreak ==
    [][(Renders("anno") /\ last'.text = NL) =>
        /\ DOMAIN heap' = DOMAIN heap
        /\ \A a \in DOMAIN heap :
              heap'[a] = IF a \in curline
                         THEN [heap[a] EXCEPT !.text = NewlineRule(@)]
                         ELSE heap[a]
        /\ curline' = {}]_vars

\* the line break reached the highlight, matched first on the line, and the
\* strike-out, matched last; the note, never on the line, is as it was
C11_Witness ==
    /\ pc = "render"
    /\ last = [kind |-> "anno", text |-> NL]
    /\ DOMAIN heap = {<<0, 1>>, <<0, 2>>, <<0, 3>>}
    /\ lasthit = {<<0, 2>>}
    /\ curline = {}
    /\ heap[<<0, 3>>].text = <<"a", " ">>
    /\ heap[<<0, 2>>].text = <<>>
    /\ heap[<<0, 1>>].text = <<>>

\* C20: at the end of a text box the overlap test is made with the box of
\* the text box, the newline broadcast rule is applied to every annotation
\* of currentLine and every annotation the box matches, every other
\* annotation is unchanged, and currentLine becomes empty.
C20_LineGroupBoundary ==
    [][Renders("textbox") =>
        LET line == curline \cup Matched(last'.bbox)
        IN  /\ DOMAIN heap' = DOMAIN heap
            /\ \A a \in DOMAIN heap :
                  heap'[a] = IF a \in line
                             THEN [heap[a] EXCEPT !.text = NewlineRule(@)]
                             ELSE heap[a]
            /\ curline' = {}]_vars

\* the text box ends after a character of the highlight; its box matches
\* the strike-out, and both receive the line break
C20_Witness ==
    /\ pc = "render"
    /\ last = [kind |-> "textbox", bbox |-> <<3, 0, 4, 2>>]
    /\ DOMAIN heap = {<<0, 1>>, <<0, 2>>, <<0, 3>>}
    /\ nrendered = 2
    /\ curline = {}
    /\ heap[<<0, 3>>].text = <<"a", " ">>
    /\ heap[<<0, 2>>].text = <<" ">>
    /\ heap[<<0, 1>>].text = <<>>

\* C21 (as stated): lastHit is replaced only by a positioned character: the
\* end of a text box, a line-break marker and a whitespace marker leave it
\* unchanged; it is the set matched by a character just processed and is
\* empty before the first primitive of the page.
C21_OnlyCharacters ==
    /\ []((pc = "render" /\ last.kind = "char")
             => lasthit = Matched(last.bbox))
    /\ []((pc = "render" /\ last.kind = "none") => lasthit = {})
    /\ [][(Renders("textbox") \/ Renders("anno")) => lasthit' = lasthit]_vars

\* C21 (amended): lastHit is replaced by every primitive that has a box, a
\* positioned character or the end of a text box, with the set that box
\* matches; a line-break marker and a whitespace marker leave it unchanged;
\* so during a page's traversal lastHit is the set matched by the most
\* recent character or text box of the page, empty before the first.
C21_BoxedPrimitives ==
    /\ []((pc = "render" /\ last.kind \in {"char", "textbox"})
             => lasthit = Matched(last.bbox))
    /\ []((pc = "render" /\ last.kind = "none") => lasthit = {})
    /\ [][Renders("anno") => lasthit' = lasthit]_vars

\* a character of the highlight, then the end of a text box that matches
\* the strike-out alone: lastHit is the strike-out, not the highlight
C21_Witness ==
    /\ pc = "render"
    /\ last = [kind |-> "textbox", bbox |-> <<3, 0, 4, 2>>]
    /\ DOMAIN heap = {<<0, 1>>, <<0, 2>>, <<0, 3>>}
    /\ heap[<<0, 3>>].text = <<"a", " ">>
    /\ heap[<<0, 2>>].text = <<" ">>
    /\ lasthit = {<<0, 2>>}
    /\ Matched(<<1, 1, 2, 2>>) = {<<0, 3>>}

\* C22: the traversal state is per page: lastHit and currentLine are empty
\* when the traversal of a page starts, and during the traversal of page p
\* they hold only annotations that belong to page p and have at least one
\* box, never an annotation of an earlier page.
C22_PerPage ==
    pc = "render" =>
        /\ last = NoPrimitive => (lasthit = {} /\ curline = {})
        /\ \A a \in lasthit \cup curline :
              /\ a \in DOMAIN heap
              /\ a[1] = Len(pageslist) - 1
              /\ heap[a].page.pageno = Len(pageslist) - 1
              /\ HasBoxes(heap[a])

\* the traversal of the second page starts with both sets empty, after a
\* first page that ended in the middle of a line of its highlight
C22_Witness ==
    /\ pc = "render"
    /\ Len(pageslist) = 2
    /\ last = NoPrimitive
    /\ <<0, 3>> \in DOMAIN heap
    /\ heap[<<0, 3>>].text = <<"a">>
    /\ annots = {<<1, 2>>}
    /\ lasthit = {}
    /\ curline = {}

\* C23: pages are processed in sequence and buffers are frozen: while a
\* page is traversed the traversal of every earlier page has ended, and no
\* step changes an annotation of a page whose traversal has ended.
C23_SequentialFrozen ==
    /\ [](pc = "render" =>
             \A a \in DOMAIN heap :
                 a[1] < Len(pageslist) - 1 => a \in Traversed)
    /\ [][\A a \in Traversed : a \in DOMAIN heap' /\ heap'[a] = heap[a]]_vars

\* on the second page a character that lies inside a box of the first
\* page's highlight is captured by the second page's strike-out alone
C23_Witness ==
    /\ pc = "render"
    /\ Len(pageslist) = 2
    /\ last = [kind |-> "char", text |-> <<"-">>, bbox |-> <<2, 1, 3, 2>>]
    /\ <<0, 3>> \in Traversed
    /\ \E i \in 1..Len(Val(heap[<<0, 3>>].boxes)) :
          Overlaps(last.bbox, Val(heap[<<0, 3>>].boxes)[i])
    /\ heap[<<0, 3>>].text = <<"a">>
    /\ heap[<<1, 2>>].text = <<"-">>

(***************************************************************************)
(* SpecAnchor: getstartpos() called once on an Annotation built from any   *)
(* Rect of the grid, corners in any order, or none, and from no            *)
(* QuadPoints, empty QuadPoints, or one or two quadrilaterals.             *)
(***************************************************************************)
\* the Rect of a raw record: absent, or four numbers
AnchorRects ==
    {None} \cup {Some(r) : r \in (0..MaxX) \X (0..MaxY)
                                    \X (0..MaxX) \X (0..MaxY)}

\* the QuadPoints of a raw record
AnchorCoords ==
    {None, Some(<<>>), Some(Quad(<<0, 1, 2, 2>>)),
     Some(Quad(<<1, 0, 2, 1>>) \o Quad(<<0, 1, 2, 2>>))}

InitAnchor ==
    /\ COLUMNS_PER_PAGE = 2
    /\ NoPages
    /\ IdleDoc
    /\ \E coords \in AnchorCoords, rect \in AnchorRects :
          heap = [i \in {Self} |->
                    NewAnnotation(Page(0, <<0, 0, MaxX, MaxY>>), "Highlight",
                                  coords, rect, None)]
    /\ captured = <<>>
    /\ got = <<>>
    /\ call = [op |-> "getstartpos", self |-> Self]
    /\ ret = <<>>

CallGetstartpos ==
    /\ call.op = "getstartpos"
    /\ ret = <<>>
    /\ ret' = <<getstartpos(heap[call.self])>>
    /\ UNCHANGED <<COLUMNS_PER_PAGE, docvars, heap, captured, got, call>>

NextAnchor == CallGetstartpos

SpecAnchor == InitAnchor /\ [][NextAnchor]_vars

\* the anchor the specification derives from a rectangle or box
AnchorOf(page, r) ==
    [page |-> page, x |-> Min(r[1], r[3]), y |-> Max(r[2], r[4])]

\* C15: the anchor of an annotation is that of its rectangle when it has
\* one, whatever its boxes, and that of its first box when it has no
\* rectangle: the owning page, the smaller of x0 and x1 and the larger of y0
\* and y1.
C15_Anchor ==
    (call.op = "getstartpos" /\ ret # <<>>) =>
        LET a == heap[call.self]
        IN  /\ a.rect # None
                  => ret[1] = Some(AnchorOf(a.page, Val(a.rect)))
            /\ (a.rect = None /\ a.boxes # None /\ Val(a.boxes) # <<>>)
                  => ret[1] = Some(AnchorOf(a.page, Val(a.boxes)[1]))

\* a rectangle given right to left and top to bottom, with boxes elsewhere:
\* the anchor is the rectangle's top left corner
C15_Witness ==
    /\ call.op = "getstartpos"
    /\ heap[Self].rect = Some(<<3, 2, 1, 0>>)
    /\ heap[Self].boxes = Some(<<<<1, 0, 2, 1>>, <<0, 1, 2, 2>>>>)
    /\ ret = <<Some([page |-> heap[Self].page, x |-> 1, y |-> 2])>>

(***************************************************************************)
(* SpecGetannots: getannots called once on any list of raw records, each   *)
(* of a retained subtype, of another subtype, or without a Subtype.        *)
(***************************************************************************)
\* what pa.get('Subtype') gives: a name, or None
Subtypes ==
    {Some(n) : n \in ANNOT_SUBTYPES \cup {"Link", "Popup"}} \cup {None}

\* the lists of raw records; the k-th record has its Rect at x = k
RecordLists ==
    UNION {{[k \in 1..n |-> Raw(f[k], None, Some(<<k, 0, k + 1, 1>>),
                                Some(<<"c">>))] :
               f \in [1..n -> Subtypes]} : n \in 0..MaxRecords}

InitGetannots ==
    /\ COLUMNS_PER_PAGE = 2
    /\ pageslist = <<NewPage(0, <<0, 0, MaxX, MaxY>>)>>
    /\ IdleDoc
    /\ IdleAnnotation
    /\ call \in {[op |-> "getannots", pdfannots |-> l, page |-> 0] :
                    l \in RecordLists}
    /\ ret = <<>>

\* getannots(pdfannots, page) returns the list of the new objects, or raises
CallGetannots ==
    /\ call.op = "getannots"
    /\ ret = <<>>
    /\ IF GetannotsRaises(call.pdfannots)
       THEN /\ ret' = <<[raised |-> TRUE]>>
            /\ UNCHANGED heap
       ELSE /\ ret' = <<[raised |-> FALSE,
                         annots |-> getannots_ids(call.pdfannots, call.page)]>>
            /\ heap' = getannots_objects(call.pdfannots,
                           PageRef(pageslist[call.page + 1])) @@ heap
    /\ UNCHANGED <<COLUMNS_PER_PAGE, docvars, captured, got, call>>

NextGetannots == CallGetannots

SpecGetannots == InitGetannots /\ [][NextGetannots]_vars

\* the kinds the specification retains
RetainedKinds == {"Text", "Highlight", "Squiggly", "StrikeOut", "Underline"}

\* the indexes, in input order, of the records of a retained kind
RECURSIVE KeptFrom(_, _)
KeptFrom(l, k) ==
    IF k > Len(l) THEN <<>>
    ELSE (IF l[k].Subtype # None /\ Val(l[k].Subtype) \in RetainedKinds
          THEN <<k>> ELSE <<>>) \o KeptFrom(l, k + 1)

\* C16: getannots retains exactly the records whose kind is Text, Highlight,
\* Squiggly, StrikeOut or Underline, in their input order; every other
\* record is dropped without an error, and each retained annotation is the
\* one made from its own record whatever the dropped records are.
C16_Retention ==
    (call.op = "getannots" /\ ret # <<>>) =>
        LET l == call.pdfannots
            kept == KeptFrom(l, 1)
        IN  /\ ~ret[1].raised
            /\ ret[1].annots = [i \in 1..Len(kept) |-> <<call.page, kept[i]>>]
            /\ \A i \in 1..Len(kept) :
                  LET a == heap[<<call.page, kept[i]>>]
                  IN  /\ a.tagname = Val(l[kept[i]].Subtype)
                      /\ a.rect = l[kept[i]].Rect
                      /\ a.contents = l[kept[i]].Contents

(***************************************************************************)
(* SpecBatch: main() over the input files of the command line.  A file is  *)
(* a PDF with annotations, a PDF without, or a file that is not a readable *)
(* PDF: on that one PDFDocument(parser) raises in process_file, which      *)
(* catches nothing there.  got lists the .org files written so far, pc is  *)
(* where main is, and ret its exit status: 0, or 1 after an uncaught       *)
(* exception.                                                              *)
(***************************************************************************)
FileKinds == {"annotated", "plain", "malformed"}

Batches == UNION {[1..n -> FileKinds] : n \in 1..MaxFiles}

InitBatch ==
    /\ COLUMNS_PER_PAGE \in {1, 2}
    /\ NoPages
    /\ doc = <<>>
    /\ allannots = <<>>
    /\ annots = {}
    /\ lasthit = {}
    /\ curline = {}
    /\ pc = "main"
    /\ last = NoPrimitive
    /\ nrendered = 0
    /\ IdleAnnotation
    /\ call \in {[op |-> "main", input |-> b] : b \in Batches}
    /\ ret = <<>>

\* process_file(fh, ...) raises
ProcessFileRaises(file) == file = "malformed"

\* one turn of the loop of main: process_file, then the .org file
MainLoop ==
    /\ pc = "main"
    /\ Len(got) < Len(call.input)
    /\ LET i == Len(got) + 1
       IN  IF ProcessFileRaises(call.input[i])
           THEN /\ pc' = "raised"
                /\ ret' = <<1>>
                /\ UNCHANGED got
           ELSE /\ got' = Append(got, [file |-> i,
                                       annots |-> call.input[i] = "annotated"])
                /\ UNCHANGED <<pc, ret>>
    /\ UNCHANGED <<COLUMNS_PER_PAGE, doc, pageslist, heap, allannots, annots,
                   lasthit, curline, last, nrendered, captured, call>>

\* the loop is over: return 0
MainReturn ==
    /\ pc = "main"
    /\ Len(got) = Len(call.input)
    /\ pc' = "returned"
    /\ ret' = <<0>>
    /\ UNCHANGED <<COLUMNS_PER_PAGE, doc, pageslist, heap, allannots, annots,
                   lasthit, curline, last, nrendered, captured, got, call>>

NextBatch == MainLoop \/ MainReturn

SpecBatch == InitBatch /\ [][NextBatch]_vars

\* C17: in a batch of several documents a fatal failure in one document
\* aborts only that document: once main has stopped, every document of the
\* batch that is a readable PDF, those after a malformed one included, has
\* been processed and its output written.
C17_BatchContinues ==
    pc \in {"returned", "raised"} =>
        \A i \in 1..Len(call.input) :
            call.input[i] # "malformed"
                => \E k \in 1..Len(got) : got[k].file = i

(***************************************************************************)
(* SpecGetOutlines: the end of process_file, after the page loop, on a     *)
(* document of two pages with one annotation: get_outlines inside its      *)
(* try/except, then the return of (allannots, outlines).  A bookmark is    *)
(* its title and its destination as resolve_dest meets it: none, a name    *)
(* the document does not define (doc.get_dest raises), or an array         *)
(* [pageref /Fit ...] or [pageref /XYZ left top zoom] whose pageref is a   *)
(* page index, a reference to an object, or something else.                *)
(***************************************************************************)
\* pdfpage.pageid of the page with index pageno
PageId(pageno) == 10 + pageno

\* the page references of a destination: indexes and object ids of the two
\* pages and of no page, and a value that is neither
OutlinePageRefs ==
    {[type |-> t, v |-> n] : t \in {"int"}, n \in 0..2}
        \cup {[type |-> t, v |-> PageId(n)] : t \in {"PDFObjRef"}, n \in 0..2}
        \cup {[type |-> "other", v |-> 0]}

OutlineDests ==
    {[kind |-> "none"], [kind |-> "undefined name"],
     [kind |-> "Fit", pageref |-> [type |-> "int", v |-> 0]]}
        \cup {[kind |-> "XYZ", pageref |-> r] : r \in OutlinePageRefs}

\* doc.get_outlines(): entry i carries the title i and the target (0, MaxY)
Bookmarks ==
    UNION {{[i \in 1..n |-> [title |-> i, dest |-> f[i]]] :
               f \in [1..n -> OutlineDests]} : n \in 0..MaxOutlines}

\* pagesdict of process_file
PagesDict(pl) ==
    [id \in {PageId(i - 1) : i \in 1..Len(pl)} |->
        PageRef(pl[CHOOSE i \in 1..Len(pl) : PageId(i - 1) = id])]

\* the loop body of get_outlines raises on this entry
OutlineRaises(e, pl) ==
    \/ e.dest.kind = "undefined name"
    \/ /\ e.dest.kind = "XYZ"
       /\ \/ e.dest.pageref.type = "int" /\ e.dest.pageref.v >= Len(pl)
          \/ /\ e.dest.pageref.type = "PDFObjRef"
             /\ e.dest.pageref.v \notin DOMAIN PagesDict(pl)

\* the loop body of get_outlines appends an Outline for this entry
OutlineKept(e) ==
    e.dest.kind = "XYZ" /\ e.dest.pageref.type \in {"int", "PDFObjRef"}

\* get_outlines(doc, pageslist, pagesdict), when no entry raises
RECURSIVE get_outlines(_, _)
get_outlines(entries, pl) ==
    IF entries = <<>> THEN <<>>
    ELSE LET e == Head(entries)
             page == IF e.dest.pageref.type = "int"
                     THEN PageRef(pl[e.dest.pageref.v + 1])
                     ELSE PagesDict(pl)[e.dest.pageref.v]
         IN  (IF OutlineKept(e)
              THEN <<[title |-> e.title,
                      pos |-> [page |-> page, x |-> 0, y |-> MaxY]]>>
              ELSE <<>>) \o get_outlines(Tail(entries), pl)

InitGetOutlines ==
    /\ COLUMNS_PER_PAGE = 2
    /\ pageslist = <<[NewPage(0, <<0, 0, MaxX, MaxY>>) EXCEPT
                         !.annots = <<Self>>],
                     NewPage(1, <<0, 0, MaxX, MaxY>>)>>
    /\ doc = <<>>
    /\ allannots = <<Self>>
    /\ annots = {}
    /\ lasthit = {}
    /\ curline = {}
    /\ pc = "pages"
    /\ last = NoPrimitive
    /\ nrendered = 0
    /\ heap = [i \in {Self} |->
                 NewAnnotation(Page(0, <<0, 0, MaxX, MaxY>>), "Text", None,
                               Some(<<1, 0, 2, 1>>), Some(<<"c">>))]
    /\ captured = <<>>
    /\ got = <<>>
    /\ call \in {[op |-> "get_outlines", outlines |-> b] : b \in Bookmarks}
    /\ ret = <<>>

\* process_file from "outlines = []" to its return
ReturnWithOutlines ==
    /\ pc = "pages"
    /\ call.op = "get_outlines"
    /\ ret' = <<[annots |-> allannots,
                 outlines |->
                     IF \E k \in 1..Len(call.outlines) :
                            OutlineRaises(call.outlines[k], pageslist)
                     THEN <<>>
                     ELSE get_outlines(call.outlines, pageslist)]>>
    /\ pc' = "done"
    /\ UNCHANGED <<COLUMNS_PER_PAGE, doc, pageslist, heap, allannots, annots,
                   lasthit, curline, last, nrendered, captured, got, call>>

NextGetOutlines == ReturnWithOutlines

SpecGetOutlines == InitGetOutlines /\ [][NextGetOutlines]_vars

\* the destination is an XYZ target on a page of the document
Resolvable(e) ==
    /\ e.dest.kind = "XYZ"
    /\ \/ e.dest.pageref.type = "int" /\ e.dest.pageref.v < Len(pageslist)
       \/ /\ e.dest.pageref.type = "PDFObjRef"
          /\ \E i \in 1..Len(pageslist) : e.dest.pageref.v = PageId(i - 1)

\* C18: an outline entry with an unsupported or unresolvable destination or
\* page reference is skipped alone: process_file returns the annotations,
\* and the outlines it returns are the titles of all the other entries, in
\* bookmark order.
C18_OutlineSkipped ==
    (call.op = "get_outlines" /\ ret # <<>>) =>
        /\ ret[1].annots = allannots
        /\ [i \in 1..Len(ret[1].outlines) |-> ret[1].outlines[i].title]
              = SelectSeq([i \in 1..Len(call.outlines) |-> i],
                          LAMBDA i : Resolvable(call.outlines[i]))

(***************************************************************************)
(* class OrgPrinter, with wrapcol None (no --wrap).  A label, the string   *)
(* "** <page> <title>" and its properties drawer, is the record of its     *)
(* parts; a body is the string format_bullet builds.  What is printed is   *)
(* the list of the section headers and entries, in order (the blank        *)
(* separator lines are left out).                                          *)
(***************************************************************************)
annot_nits == {"Squiggly", "StrikeOut", "Underline"}

\* [l for l in s.splitlines() if l], line being the line read so far
RECURSIVE SplitFrom(_, _)
SplitFrom(s, line) ==
    IF s = <<>> THEN (IF line = <<>> THEN <<>> ELSE <<line>>)
    ELSE IF Head(s) = "\n"
         THEN (IF line = <<>> THEN <<>> ELSE <<line>>)
                  \o SplitFrom(Tail(s), <<>>)
         ELSE SplitFrom(Tail(s), Append(line, Head(s)))

\* text and comment of format_annot
TextOf(a) ==
    LET rawtext == gettext(a)
    IN  IF rawtext # None /\ Val(rawtext) # <<>>
        THEN SplitFrom(Strip(Val(rawtext)), <<>>)
        ELSE <<>>

CommentOf(a) ==
    IF a.contents # None /\ Val(a.contents) # <<>>
    THEN SplitFrom(Val(a.contents), <<>>)
    ELSE <<>>

\* "assert text or comment" fails
format_annot_raises(a) == TextOf(a) = <<>> /\ CommentOf(a) = <<>>

\* OrgPrinter.format_pos(annot)
format_pos(outlines, annot) ==
    LET apos == getstartpos(annot)
        o == IF apos # None THEN nearest_outline(outlines, Val(apos))
             ELSE None
    IN  [pageno |-> annot.page.pageno + 1,
         title |-> IF o = None THEN None ELSE Some(Val(o).title)]

\* the second component of format_bullet(paras, quotepos, quotelen), from
\* paragraph npara on
RECURSIVE format_bullet(_, _, _)
format_bullet(paras, npara, quotepos) ==
    IF paras = <<>> THEN <<>>
    ELSE (IF quotepos = Some(npara) THEN <<"\n">> ELSE <<"\n", "\n">>)
             \o <<" ", " ">> \o Head(paras)
             \o format_bullet(Tail(paras), npara + 1, quotepos)

\* OrgPrinter.format_annot(annot, extra), when the assertion holds
format_annot(outlines, annot, extra) ==
    [label |-> [pos |-> format_pos(outlines, annot), extra |-> extra],
     body |-> format_bullet(TextOf(annot) \o CommentOf(annot), 1,
                            IF TextOf(annot) # <<>> THEN Some(1) ELSE None)]

\* OrgPrinter.printall(annots), with out printed so far
RECURSIVE printall(_, _, _, _)
printall(outlines, h, as, out) ==
    IF as = <<>> THEN [raised |-> FALSE, out |-> out]
    ELSE IF format_annot_raises(h[Head(as)])
         THEN [raised |-> TRUE, out |-> out]
         ELSE printall(outlines, h, Tail(as),
                       Append(out, format_annot(outlines, h[Head(as)],
                                      Some(h[Head(as)].tagname))))

\* the three lists of printall_grouped
GroupOf(h, as, name) ==
    SelectSeq(as, LAMBDA i :
        CASE name = "highlights" ->
                 h[i].tagname = "Highlight" /\ h[i].contents = None
          [] name = "comments" ->
                 /\ h[i].tagname \notin annot_nits
                 /\ h[i].contents # None
                 /\ Val(h[i].contents) # <<>>
          [] name = "nits" -> h[i].tagname \in annot_nits)

\* a dict, as the list of its items in insertion order, after d[k] = v
\* (add false) or d[k] += v on a defaultdict(str) (add true)
DictPut(d, k, v, add) ==
    IF \E i \in 1..Len(d) : d[i].label = k
    THEN [i \in 1..Len(d) |->
            IF d[i].label = k
            THEN [label |-> k, body |-> IF add THEN d[i].body \o v ELSE v]
            ELSE d[i]]
    ELSE Append(d, [label |-> k, body |-> v])

\* page_highlights, page_comments or page_nits after the loop over the list
RECURSIVE FillDict(_, _, _, _, _)
FillDict(outlines, h, group, name, d) ==
    IF group = <<>> THEN d
    ELSE LET a == h[Head(group)]
             extra == IF name = "nits" /\ a.tagname = "StrikeOut"
                      THEN Some("delete") ELSE None
             f == format_annot(outlines, a, extra)
         IN  FillDict(outlines, h, Tail(group), name,
                      IF name = "highlights"
                      THEN DictPut(d, f.label, f.body \o NL, TRUE)
                      ELSE DictPut(d, f.label, f.body, FALSE))

\* the name printheader is called with
SectionHeader(name) ==
    CASE name = "highlights" -> "Highlights"
      [] name = "comments" -> "Detailed comments"
      [] name = "nits" -> "Nits"

\* OrgPrinter.printall_grouped(sections, annots), with out printed so far;
\* no section is named twice
RECURSIVE printall_grouped(_, _, _, _, _)
printall_grouped(outlines, h, sections, as, out) ==
    IF sections = <<>> THEN [raised |-> FALSE, out |-> out]
    ELSE LET name == Head(sections)
             group == GroupOf(h, as, name)
             header == [header |-> SectionHeader(name)]
         IN  IF group = <<>>
             THEN printall_grouped(outlines, h, Tail(sections), as, out)
             ELSE IF \E i \in 1..Len(group) : format_annot_raises(h[group[i]])
             THEN [raised |-> TRUE, out |-> Append(out, header)]
             ELSE printall_grouped(outlines, h, Tail(sections), as,
                      Append(out, header)
                          \o FillDict(outlines, h, group, name, <<>>))

(***************************************************************************)
(* SpecPrinter: the printer called once, ungrouped or grouped, on a list   *)
(* of finalized annotations of one page that tie under the comparator (so  *)
(* that every order of them is a sorted one), with no outline or one.      *)
(***************************************************************************)
\* a finalized annotation of the first page, anchored at (1, 1)
Finalized(tagname, coords, contents, text) ==
    capture(NewAnnotation(Page(0, <<0, 0, MaxX, MaxY>>), tagname, coords,
                          Some(<<1, 0, 2, 1>>), contents), text)

\* highlights with text, and with text and a comment; notes with and
\* without a comment; a strike-out with text; a highlight without boxes
PrinterHeap ==
    LET coords == Some(Quad(<<1, 0, 2, 1>>))
    IN  <<0, 1>> :> Finalized("Highlight", coords, None, <<"a">>)
     @@ <<0, 2>> :> Finalized("Highlight", coords, Some(<<"c">>), <<"a">>)
     @@ <<0, 3>> :> Finalized("Text", None, Some(<<"c">>), <<>>)
     @@ <<0, 4>> :> Finalized("Text", None, None, <<>>)
     @@ <<0, 5>> :> Finalized("StrikeOut", coords, None, <<"a">>)
     @@ <<0, 6>> :> Finalized("Highlight", None, None, <<>>)

\* lists of different annotations
AnnotLists ==
    UNION {{f \in [1..n -> DOMAIN PrinterHeap] :
               \A i, j \in 1..n : f[i] = f[j] => i = j} : n \in 0..MaxAnnots}

\* args.sections
SectionLists ==
    {<<"highlights", "comments", "nits">>, <<"nits", "highlights">>,
     <<"comments">>}

PrinterOutlines ==
    {<<>>, <<[title |-> 1,
              pos |-> [page |-> Page(0, <<0, 0, MaxX, MaxY>>),
                       x |-> 0, y |-> MaxY]]>>}

InitPrinter ==
    /\ COLUMNS_PER_PAGE = 2
    /\ NoPages
    /\ IdleDoc
    /\ heap = PrinterHeap
    /\ captured = <<>>
    /\ got = <<>>
    /\ call \in {[op |-> "printall", outlines |-> os, sections |-> <<>>,
                  annots |-> as] :
                    os \in PrinterOutlines, as \in AnnotLists}
               \cup {[op |-> "printall_grouped", outlines |-> os,
                      sections |-> ss, annots |-> as] :
                        os \in PrinterOutlines, ss \in SectionLists,
                        as \in AnnotLists}
    /\ ret = <<>>

CallPrintall ==
    /\ call.op = "printall"
    /\ ret = <<>>
    /\ ret' = <<printall(call.outlines, heap, call.annots, <<>>)>>
    /\ UNCHANGED <<COLUMNS_PER_PAGE, docvars, heap, captured, got, call>>

CallPrintallGrouped ==
    /\ call.op = "printall_grouped"
    /\ ret = <<>>
    /\ ret' = <<printall_grouped(call.outlines, heap, call.sections,
                                 call.annots, <<>>)>>
    /\ UNCHANGED <<COLUMNS_PER_PAGE, docvars, heap, captured, got, call>>

NextPrinter == CallPrintall \/ CallPrintallGrouped

SpecPrinter == InitPrinter /\ [][NextPrinter]_vars

\* the annotation exposes neither recovered text nor a comment
Neither(a) ==
    /\ RecoveredText(a) = None \/ Val(RecoveredText(a)) = <<>>
    /\ a.contents = None \/ Val(a.contents) = <<>>

\* C19: when an annotation handed to the printer has neither recovered text
\* nor a comment, output stops with a failure, in the ungrouped and in the
\* grouped mode alike: it is never passed over in silence.
C19_NeitherFails ==
    (call.op \in {"printall", "printall_grouped"} /\ ret # <<>>
        /\ \E i \in 1..Len(call.annots) : Neither(heap[call.annots[i]]))
    => ret[1].raised

\* t is a part of s
Contains(s, t) ==
    \E i \in 0..(Len(s) - Len(t)) : SubSeq(s, i + 1, i + Len(t)) = t

\* the annotations of the list that printall_grouped puts in a section
Classified(h, as) ==
    {as[i] : i \in 1..Len(as)} \cap
        UNION {{g[i] : i \in 1..Len(g)} :
                  g \in {GroupOf(h, as, name) :
                            name \in {"highlights", "comments", "nits"}}}

\* C26: grouped output loses no annotation: after printall_grouped with the
\* sections highlights, comments and nits, the formatted body of every
\* annotation that belongs to one of the sections is part of an entry of the
\* output, also when annotations of one section have the same label.
C26_NoAnnotationLost ==
    (call.op = "printall_grouped" /\ ret # <<>> /\ ~ret[1].raised
        /\ Len(call.sections) = 3)
    => \A a \in Classified(heap, call.annots) :
          \E k \in 1..Len(ret[1].out) :
              /\ "body" \in DOMAIN ret[1].out[k]
              /\ Contains(ret[1].out[k].body,
                          format_annot(call.outlines, heap[a], None).body)

====
